---- MODULE Spec2Model ----
(***************************************************************************)
(* A model of the self-hosted media system: the YouTubeDownloadManager of  *)
(* youtube_manager.py (catalog store, ingestion of videos and playlists)   *)
(* and the FastAPI handlers of web_interface.py (download endpoints,       *)
(* search, byte-range streaming).                                          *)
(*                                                                         *)
(* Text that the code inspects character by character (titles, uploader    *)
(* names, Range headers) is a sequence of one-character strings.  Python's *)
(* None is None where a sequence is expected, NoneStr where an opaque      *)
(* string is and NoneInt where an integer is.  A call's outcome is a       *)
(* record whose kind is                                                    *)
(* "return" (with the returned value) or "raise" (with the exception       *)
(* type): an exception that leaves a function is part of what it does.     *)
(***************************************************************************)
EXTENDS Integers, Sequences, FiniteSets, TLC

VARIABLES
    db,       \* the committed content of the SQLite file at db_path
    last,     \* the manager call whose result the caller holds: operation,
              \* arguments, what the extractor / filesystem / database did
              \* during it, outcome; NoCall between calls
    fs,       \* the media files on disk: path -> size in bytes
    req,      \* the HTTP request being served by the streaming endpoints
    resp,     \* the HTTP response to req: status, headers, body chunks
    reader,   \* iterfile's position: offset in the file, bytes remaining
    loop,     \* what the event-loop thread of the web server is running
    reqs,     \* the POST requests received: handler position, response
    execs     \* the download_video executions started by the web server

vars == <<db, last, fs, req, resp, reader, loop, reqs, execs>>

managerVars == <<db, last>>
streamVars == <<fs, req, resp, reader>>
webVars == <<loop, reqs, execs>>

-----------------------------------------------------------------------------
(* Bounds of the model. *)

\* AUTOINCREMENT row ids of the videos table are handed out up to here.
MaxRowId == 2

-----------------------------------------------------------------------------
(* Python values. *)

None == <<"<None>">>
NoneStr == "<None>"
NoneInt == -1

Return(v) == [kind |-> "return", value |-> v]
Raise(exc) == [kind |-> "raise", exc |-> exc]

\* Python truthiness of a sequence (str, list) or None.
Truthy(s) == s # <<>> /\ s # None

Range(s) == {s[i] : i \in DOMAIN s}

-----------------------------------------------------------------------------
(* The external extractor (yt_dlp) and what it answers for the URLs of the *)
(* model.  A URL is <<site, path marker, id>>.                             *)

WatchUrl(id) == <<"https://www.youtube.com", "/watch?v=", id>>
ShortsUrl(id) == <<"https://www.youtube.com", "/shorts/", id>>

VideoIds == {"A", "B"}
Urls == {WatchUrl("A"), ShortsUrl("A"), WatchUrl("B")}

\* L is a live stream: yt_dlp answers its duration as None.
LiveUrl == WatchUrl("L")

Titles == [A |-> <<"a", ":", "b">>, B |-> <<"b", "c">>, L |-> <<"l">>]
Uploaders == [A |-> <<"X", "/", "y">>, B |-> <<"Z">>, L |-> <<"Z">>]
Durations == [A |-> 45, B |-> 120, L |-> NoneInt]

\* The info dict yt_dlp's extract_info returns for a video URL.
ExtractInfo(url) ==
    [id |-> url[3],
     title |-> Titles[url[3]],
     uploader |-> Uploaders[url[3]],
     duration |-> Durations[url[3]],
     width |-> IF url[3] = "A" THEN 720 ELSE 1920,
     height |-> IF url[3] = "A" THEN 1280 ELSE 1080,
     webpage_url |-> url,
     ext |-> "mp4"]

\* dict.get(key, default)
Get(d, key, default) == IF key \in DOMAIN d THEN d[key] ELSE default

ProbeMsg == "ERROR: [youtube] Video unavailable"
DownloadMsg == "ERROR: unable to download video data"

-----------------------------------------------------------------------------
(* Python values that is_youtube_short mixes: bool, int and None.  `and`   *)
(* and `or` return one of their operands, not a bool.                      *)

PyBool(b) == [t |-> "bool", b |-> b, n |-> 0]
PyInt(n) == [t |-> "int", b |-> FALSE, n |-> n]
PyNone == [t |-> "NoneType", b |-> FALSE, n |-> 0]

\* An integer read from the info dict: NoneInt is Python's None.
PyNum(n) == IF n = NoneInt THEN PyNone ELSE PyInt(n)

IsTrue(x) ==
    CASE x.t = "bool" -> x.b
      [] x.t = "int" -> x.n # 0
      [] OTHER -> FALSE

PyAnd(x, y) == IF IsTrue(x) THEN y ELSE x
PyOr(x, y) == IF IsTrue(x) THEN x ELSE y

\* The value sqlite3 stores for a Python value bound to a BOOLEAN column.
SqlBool(x) ==
    CASE x.t = "bool" -> IF x.b THEN 1 ELSE 0
      [] x.t = "int" -> x.n
      [] OTHER -> NoneInt

-----------------------------------------------------------------------------
(* YouTubeDownloadManager: the pure helpers. *)

\* The length filename[:200] keeps.
NameLimit == 200

IllegalChars == {"<", ">", ":", "\"", "/", "\\", "|", "?", "*"}

\* re.sub(r'[<>:"/\\|?*]', '', filename): every match is replaced by the empty
\* string; the name is taken by halves, which keeps the evaluation shallow
\* on names longer than NameLimit.
RECURSIVE StripIllegal(_)
StripIllegal(s) ==
    IF s = <<>> THEN <<>>
    ELSE IF Len(s) = 1
    THEN (IF s[1] \in IllegalChars THEN <<>> ELSE s)
    ELSE StripIllegal(SubSeq(s, 1, Len(s) \div 2))
             \o StripIllegal(SubSeq(s, (Len(s) \div 2) + 1, Len(s)))

Prefix(s, n) == SubSeq(s, 1, IF Len(s) < n THEN Len(s) ELSE n)

\* The name cut to 200 characters first, the illegal ones removed after.
MutTruncateFirst(filename) == StripIllegal(Prefix(filename, NameLimit))

sanitize_filename(filename) == Prefix(StripIllegal(filename), NameLimit)

\* '/shorts/' in url
HasShortsMarker(url) == \E i \in DOMAIN url : url[i] = "/shorts/"

is_youtube_short(info) ==
    LET duration == PyNum(Get(info, "duration", 0))
        width == PyNum(Get(info, "width", 0))
        height == PyNum(Get(info, "height", 0))
        is_short_duration ==
            IF IsTrue(duration) THEN PyBool(duration.n <= 60) ELSE duration
        is_vertical ==
            IF IsTrue(PyAnd(height, width)) THEN height.n > width.n ELSE FALSE
        url == Get(info, "web_page_url", <<>>)
        is_short_url == HasShortsMarker(url)
    IN  PyOr(PyBool(is_short_url), PyAnd(is_short_duration, PyBool(is_vertical)))

-----------------------------------------------------------------------------
(* The catalog: the four tables of setup_database.  videos is a set of     *)
(* rows keyed by the AUTOINCREMENT id; videos_seq is the largest id ever   *)
(* handed out (sqlite_sequence).  tags, playlists and playlist_items only  *)
(* grow, so each is the sequence of its rows in rowid order.               *)

setup_database ==
    [videos |-> {}, videos_seq |-> 0, tags |-> <<>>,
     playlists |-> <<>>, playlist_items |-> <<>>]

\* A plain INSERT that keeps the row of the same video_id.
MutInsertKeepsOldRow(cat, video_data) ==
    LET id == cat.videos_seq + 1
        row == [id |-> id,
                video_id |-> video_data.video_id,
                title |-> video_data.title,
                uploader |-> video_data.uploader,
                duration |-> video_data.duration,
                is_short |-> SqlBool(Get(video_data, "is_short", PyBool(FALSE))),
                file_path |-> video_data.file_path,
                original_url |-> video_data.original_url,
                status |-> Get(video_data, "status", "completed")]
    IN  [cat EXCEPT !.videos = @ \cup {row}, !.videos_seq = id]

\* INSERT OR REPLACE INTO videos: a row with the same video_id (UNIQUE) is
\* deleted, the new row gets the next AUTOINCREMENT id.
InsertOrReplaceVideo(cat, video_data) ==
    LET id == cat.videos_seq + 1
        row == [id |-> id,
                video_id |-> video_data.video_id,
                title |-> video_data.title,
                uploader |-> video_data.uploader,
                duration |-> video_data.duration,
                is_short |-> SqlBool(Get(video_data, "is_short", PyBool(FALSE))),
                file_path |-> video_data.file_path,
                original_url |-> video_data.original_url,
                status |-> Get(video_data, "status", "completed")]
    IN  [cat EXCEPT
            !.videos = {r \in @ : r.video_id # video_data.video_id} \cup {row},
            !.videos_seq = id]

\* INSERT INTO tags (video_id, tag)
InsertTag(cat, video_db_id, tag) ==
    [cat EXCEPT !.tags = Append(@, [video_id |-> video_db_id, tag |-> tag])]

\* all_tags = ['YouTube']; if tags: all_tags.extend(tags)
AllTags(tags) == <<"YouTube">> \o (IF Truthy(tags) THEN tags ELSE <<>>)

\* The connection's view after the first n statements of save_to_database:
\* the video insert, then one tag insert per element of all_tags.
RECURSIVE SaveStatements(_, _, _, _)
SaveStatements(cat, video_data, all_tags, n) ==
    IF n = 0 THEN cat
    ELSE IF n = 1 THEN InsertOrReplaceVideo(cat, video_data)
    ELSE InsertTag(SaveStatements(cat, video_data, all_tags, n - 1),
                   cat.videos_seq + 1, all_tags[n - 1])

\* A connection in autocommit mode: every statement that ran is committed.
MutAutocommit(cat, video_data, all_tags, n) ==
    SaveStatements(cat, video_data, all_tags, n)

\* What the database file holds once a connection that ran its first n
\* statements goes away without commit(): sqlite3 opened the transaction at
\* the first INSERT, and closing the connection rolls it back.
Uncommitted(cat, video_data, all_tags, n) == cat

\* save_to_database(video_data, tags).  failAt = 0: every statement and the
\* commit succeed.  failAt = k > 0: the k-th step raises (1 the video insert,
\* 2.. the tag inserts, the last one conn.commit()), the exception leaves
\* the function and the connection is dropped uncommitted.  The video insert
\* itself raises when a NOT NULL column (video_id, title) is bound to None.
save_to_database(cat, video_data, tags, failAt) ==
    LET all_tags == AllTags(tags)
        steps == 1 + Len(all_tags) + 1
        notNull == video_data.video_id = NoneStr \/ video_data.title = None
        at == IF notNull THEN 1 ELSE failAt
    IN  IF at \in 1..steps
        THEN [cat |-> Uncommitted(cat, video_data, all_tags, at - 1),
              out |-> Raise(IF notNull THEN "IntegrityError"
                            ELSE "OperationalError")]
        ELSE [cat |-> SaveStatements(cat, video_data, all_tags, steps - 1),
              out |-> Return(cat.videos_seq + 1)]

-----------------------------------------------------------------------------
(* download_video.  What the world does during one call is its oracle:     *)
(* fault names the step that fails ("none", "probe": the metadata-only     *)
(* extract_info raises, "mkdir": output_dir.mkdir raises, "download": the  *)
(* downloading extract_info raises, "db": a step of save_to_database       *)
(* raises), and at is that step's number in save_to_database.              *)

Oracle(fault, at) == [fault |-> fault, at |-> at]
NoFault == Oracle("none", 0)

\* ydl.prepare_filename(info) under outtmpl output_dir / f"{title}.%(ext)s",
\* output_dir = base_path / video_type / uploader.
OutputPath(video_type, uploader, title, ext) ==
    <<"./youtube_media", video_type, uploader, title, ext>>

\* The row is saved before the download is attempted.
MutSaveBeforeDownload(cat, video_data, tags) ==
    save_to_database(cat, video_data, tags, 0).cat

\* The catalog a call leaves behind when its downloading extract_info
\* raises: save_to_database has not run yet.
AfterFailedDownload(cat, video_data, tags) == cat

download_video(cat, url, custom_tags, oracle) ==
    IF oracle.fault = "probe"
    THEN [cat |-> cat,
          out |-> Return([status |-> "error", message |-> ProbeMsg])]
    ELSE
    LET info == ExtractInfo(url)
        is_short == is_youtube_short(info)
        video_type == IF IsTrue(is_short) THEN "shorts" ELSE "videos"
        raw_uploader == Get(info, "uploader", <<"U", "n", "k", "n", "o", "w", "n">>)
        raw_title == Get(info, "title", <<"U", "n", "t", "i", "t", "l", "e", "d">>)
        uploader == sanitize_filename(raw_uploader)
        title == sanitize_filename(raw_title)
        downloaded_file == OutputPath(video_type, uploader, title, info.ext)
        video_data ==
            [video_id |-> Get(info, "id", NoneStr),
             title |-> Get(info, "title", None),
             uploader |-> Get(info, "uploader", None),
             duration |-> Get(info, "duration", NoneInt),
             is_short |-> is_short,
             file_path |-> downloaded_file,
             original_url |-> url,
             status |-> "completed"]
        saved == save_to_database(cat, video_data, custom_tags,
                                  IF oracle.fault = "db" THEN oracle.at ELSE 0)
    IN  IF raw_uploader = None \/ raw_title = None
        THEN [cat |-> cat, out |-> Raise("TypeError")]
        ELSE IF oracle.fault = "mkdir"
        THEN [cat |-> cat, out |-> Raise("OSError")]
        ELSE IF oracle.fault = "download"
        THEN [cat |-> AfterFailedDownload(cat, video_data, custom_tags),
              out |-> Return([status |-> "error", message |-> DownloadMsg])]
        ELSE IF saved.out.kind = "raise"
        THEN saved
        ELSE [cat |-> saved.cat,
              out |-> Return([status |-> "success",
                              video_id |-> Get(info, "id", NoneStr),
                              title |-> Get(info, "title", None),
                              is_short |-> is_short,
                              db_id |-> saved.out.value])]

-----------------------------------------------------------------------------
(* download_playlist. *)

PlaylistUrls == {"https://www.youtube.com/playlist?list=PL1",
                 "https://www.youtube.com/playlist?list=PL2"}

\* The playlist PL2 after its owner renamed it and removed an entry: the
\* same external id under another title and description.
RenamedPlaylistUrl == "https://www.youtube.com/playlist?list=PL2&v=2"

\* The flat playlist_info of extract_info(playlist_url, download=False):
\* an entry carries its url, or only its id.
ExtractPlaylist(playlist_url) ==
    IF playlist_url = "https://www.youtube.com/playlist?list=PL1"
    THEN [id |-> "PL1", title |-> "Mix", description |-> "three entries",
          entries |-> <<[id |-> "A", url |-> WatchUrl("A")],
                        [id |-> "B"],
                        [id |-> "A", url |-> ShortsUrl("A")]>>]
    ELSE IF playlist_url = RenamedPlaylistUrl
    THEN [id |-> "PL2", title |-> "Pair (renamed)", description |-> "new",
          entries |-> <<[id |-> "B", url |-> WatchUrl("B")]>>]
    ELSE [id |-> "PL2", title |-> "Pair", description |-> "",
          entries |-> <<[id |-> "B", url |-> WatchUrl("B")],
                        [id |-> "A", url |-> WatchUrl("A")]>>]

PlaylistOracle(listing, entries) == [listing |-> listing, entries |-> entries]

ListingMsg == "ERROR: [youtube:tab] The playlist does not exist"

\* INSERT OR REPLACE in the place of INSERT OR IGNORE: the row takes the
\* name and description of the latest call.
MutReplacePlaylist(cat, playlist_id, name, description) ==
    IF \E i \in DOMAIN cat.playlists : cat.playlists[i].playlist_id = playlist_id
    THEN [cat EXCEPT !.playlists =
              [i \in DOMAIN @ |->
                  IF @[i].playlist_id = playlist_id
                  THEN [@[i] EXCEPT !.name = name, !.description = description]
                  ELSE @[i]]]
    ELSE [cat EXCEPT !.playlists =
              Append(@, [id |-> Len(@) + 1, playlist_id |-> playlist_id,
                         name |-> name, description |-> description])]

\* INSERT OR IGNORE INTO playlists: playlist_id is UNIQUE.
InsertOrIgnorePlaylist(cat, playlist_id, name, description) ==
    IF \E i \in DOMAIN cat.playlists : cat.playlists[i].playlist_id = playlist_id
    THEN cat
    ELSE [cat EXCEPT !.playlists =
              Append(@, [id |-> Len(@) + 1, playlist_id |-> playlist_id,
                         name |-> name, description |-> description])]

\* SELECT id FROM playlists WHERE playlist_id = ?
SelectPlaylistId(cat, playlist_id) ==
    (CHOOSE i \in DOMAIN cat.playlists :
         cat.playlists[i].playlist_id = playlist_id)

\* Successful entries are numbered 0, 1, 2, ... without gaps.
MutRenumbered(idx, results) ==
    Cardinality({j \in DOMAIN results : results[j].status = "success"})

\* The position a successful entry is linked at: enumerate()'s idx.
ItemPosition(idx, results) == idx

\* INSERT INTO playlist_items (playlist_id, videos_id, position)
InsertPlaylistItem(cat, db_playlist_id, videos_id, position) ==
    [cat EXCEPT !.playlist_items =
         Append(@, [playlist_id |-> db_playlist_id, videos_id |-> videos_id,
                    position |-> position])]

\* entry.get('url') or f"https://www.youtube.com/watch?v={entry.get('id')}"
EntryUrl(entry) ==
    IF Truthy(Get(entry, "url", None)) THEN entry.url
    ELSE WatchUrl(Get(entry, "id", NoneStr))

\* The body of the for loop for the entry at idx: download_video, and for a
\* success the playlist_items row.  An exception that leaves download_video
\* leaves the body.
PlaylistEntry(cat, db_playlist_id, entry, custom_tags, oracle, idx, results) ==
    LET r == download_video(cat, EntryUrl(entry), custom_tags, oracle)
    IN  IF r.out.kind = "raise" THEN r
        ELSE [cat |-> IF r.out.value.status = "success"
                      THEN InsertPlaylistItem(r.cat, db_playlist_id,
                                              r.out.value.db_id,
                                              ItemPosition(idx, results))
                      ELSE r.cat,
              out |-> r.out]

\* return {'status': 'success', ...}
PlaylistReport(playlist_name, entries, results) ==
    [status |-> "success", playlist_name |-> playlist_name,
     total_videos |-> Len(entries), results |-> results]

\* The for loop over enumerate(entries), from the i-th entry (i = idx + 1)
\* on: an exception that leaves the body leaves the loop and
\* download_playlist with it.
RECURSIVE PlaylistLoop(_, _, _, _, _, _, _, _)
PlaylistLoop(cat, playlist_name, db_playlist_id, entries, custom_tags, oracles, i, results) ==
    IF i > Len(entries)
    THEN [cat |-> cat,
          out |-> Return(PlaylistReport(playlist_name, entries, results))]
    ELSE
    LET r == PlaylistEntry(cat, db_playlist_id, entries[i], custom_tags,
                           oracles[i], i - 1, results)
    IN  IF r.out.kind = "raise" THEN r
        ELSE PlaylistLoop(r.cat, playlist_name, db_playlist_id, entries,
                          custom_tags, oracles, i + 1,
                          Append(results, r.out.value))

download_playlist(cat, playlist_url, custom_tags, oracle) ==
    IF oracle.listing = "error"
    THEN [cat |-> cat,
          out |-> Return([status |-> "error", message |-> ListingMsg])]
    ELSE
    LET playlist_info == ExtractPlaylist(playlist_url)
        playlist_name == Get(playlist_info, "title", "Unknown Playlist")
        playlist_id == Get(playlist_info, "id", NoneStr)
        cat1 == InsertOrIgnorePlaylist(cat, playlist_id, playlist_name,
                                       Get(playlist_info, "description", ""))
        db_playlist_id == SelectPlaylistId(cat1, playlist_id)
        entries == Get(playlist_info, "entries", <<>>)
    IN  PlaylistLoop(cat1, playlist_name, db_playlist_id, entries,
                     custom_tags, oracle.entries, 1, <<>>)

-----------------------------------------------------------------------------
(* search_videos. *)

\* The last line of the statement search_videos hands to cursor.execute.
SearchSqlTail ==
    <<"A", "N", "D", " ", "s", "t", "a", "t", "u", "s", " ", "=", " ",
      "'", "c", "o", "m", "p", "l", "e", "t", "e", "d">>

\* SQLite's tokenizer: a string literal runs from a quote to the next one,
\* and a statement that ends inside a literal is "unrecognized token".
RECURSIVE LiteralsClosed(_, _)
LiteralsClosed(sql, inside) ==
    IF sql = <<>> THEN ~inside
    ELSE LiteralsClosed(Tail(sql), IF Head(sql) = "'" THEN ~inside ELSE inside)

\* text contains q as a contiguous run (the match of LIKE '%q%' for a q
\* without wildcard characters).
Contains(text, q) ==
    \E i \in 0..(Len(text) - Len(q)) : SubSeq(text, i + 1, i + Len(q)) = q

search_videos(cat, query) ==
    IF ~LiteralsClosed(SearchSqlTail, FALSE)
    THEN Raise("OperationalError")
    ELSE Return({r \in cat.videos :
                    /\ Contains(r.title, query) \/ Contains(r.uploader, query)
                    /\ r.status = "completed"})

\* GET /api/search: any exception becomes HTTPException(status_code=500).
api_search_videos(cat, q) ==
    LET results == search_videos(cat, q)
    IN  IF results.kind = "raise"
        THEN [status |-> 500, body |-> {}]
        ELSE [status |-> 200, body |-> results.value]

-----------------------------------------------------------------------------
(* get_all_videos. *)

\* The is_short arguments of get_all_videos: None, True, False.
ListFilters == {PyNone, PyBool(TRUE), PyBool(FALSE)}

\* SELECT * FROM videos WHERE status = 'completed', the is_short argument
\* left out of the statement.
MutListAll(cat, is_short) ==
    Return({r \in cat.videos : r.status = "completed"})

\* WHERE status = 'completed' [AND is_short = ?]: a comparison with a NULL
\* is_short is not true, whatever the parameter.
get_all_videos(cat, is_short) ==
    Return({r \in cat.videos :
               /\ r.status = "completed"
               /\ \/ is_short = PyNone
                  \/ /\ r.is_short # NoneInt
                     /\ r.is_short = SqlBool(is_short)})

-----------------------------------------------------------------------------
(* The manager driven by one caller, call after call. *)

TagLists == {<<>>, <<"Podcast">>}

\* The steps of save_to_database that can raise, for the longest tag list.
DbSteps == 1..3

VideoOracles ==
    {Oracle(f, 0) : f \in {"none", "probe", "mkdir", "download"}}
        \cup {Oracle("db", k) : k \in DbSteps}

\* Inside a playlist each entry succeeds, fails in the extractor or fails at
\* output_dir.mkdir.
EntryOracles == {Oracle(f, 0) : f \in {"none", "probe", "mkdir"}}

PlaylistOracles(playlist_url) ==
    {PlaylistOracle("error", <<>>)} \cup
    {PlaylistOracle("ok", e) :
        e \in [1..Len(ExtractPlaylist(playlist_url).entries) -> EntryOracles]}

NoCall == [op |-> "none"]

DownloadVideo(url, tags, oracle) ==
    LET r == download_video(db, url, tags, oracle)
    IN  /\ last = NoCall
        /\ r.cat.videos_seq <= MaxRowId
        /\ db' = r.cat
        /\ last' = [op |-> "download_video", url |-> url, tags |-> tags,
                    oracle |-> oracle, out |-> r.out]
        /\ UNCHANGED <<streamVars, webVars>>

DownloadPlaylist(playlist_url, tags, oracle) ==
    LET r == download_playlist(db, playlist_url, tags, oracle)
    IN  /\ last = NoCall
        /\ r.cat.videos_seq <= MaxRowId
        /\ db' = r.cat
        /\ last' = [op |-> "download_playlist", url |-> playlist_url,
                    tags |-> tags, oracle |-> oracle, out |-> r.out]
        /\ UNCHANGED <<streamVars, webVars>>

Queries == {<<"b">>, <<"X">>, <<"q">>}

SearchVideos(q) ==
    /\ last = NoCall
    /\ last' = [op |-> "search_videos", q |-> q, out |-> search_videos(db, q),
                http |-> api_search_videos(db, q)]
    /\ UNCHANGED <<db, streamVars, webVars>>

GetAllVideos(is_short) ==
    /\ last = NoCall
    /\ last' = [op |-> "get_all_videos", is_short |-> is_short,
                out |-> get_all_videos(db, is_short)]
    /\ UNCHANGED <<db, streamVars, webVars>>

\* The caller is done with the result and goes on to its next call.
NextCall ==
    /\ last # NoCall
    /\ last' = NoCall
    /\ UNCHANGED <<db, streamVars, webVars>>

Init ==
    /\ db = setup_database
    /\ last = NoCall
    /\ fs = <<>>
    /\ req = [endpoint |-> "none"]
    /\ resp = [status |-> 0]
    /\ reader = [active |-> FALSE, size |-> 0, pos |-> 0, remaining |-> 0]
    /\ loop = 0
    /\ reqs = <<>>
    /\ execs = {}

Next ==
    \/ \E url \in Urls, tags \in TagLists, oracle \in VideoOracles :
           DownloadVideo(url, tags, oracle)
    \/ \E url \in PlaylistUrls, tags \in TagLists :
           \E oracle \in PlaylistOracles(url) :
               DownloadPlaylist(url, tags, oracle)
    \/ \E q \in Queries : SearchVideos(q)
    \/ \E is_short \in ListFilters : GetAllVideos(is_short)
    \/ NextCall

Spec == Init /\ [][Next]_vars

-----------------------------------------------------------------------------
(* Text: Python's str operations used on the Range header. *)

DigitChars == <<"0", "1", "2", "3", "4", "5", "6", "7", "8", "9">>

RECURSIVE DecDigits(_)
DecDigits(n) ==
    IF n < 10 THEN <<DigitChars[n + 1]>>
    ELSE DecDigits(n \div 10) \o <<DigitChars[(n % 10) + 1]>>

\* str(n), and {n} in an f-string
Str(n) == IF n < 0 THEN <<"-">> \o DecDigits(-n) ELSE DecDigits(n)

\* s.replace(old, "")
RECURSIVE RemoveAll(_, _)
RemoveAll(s, old) ==
    IF Len(s) < Len(old) THEN s
    ELSE IF SubSeq(s, 1, Len(old)) = old
    THEN RemoveAll(SubSeq(s, Len(old) + 1, Len(s)), old)
    ELSE <<Head(s)>> \o RemoveAll(Tail(s), old)

\* s.split(sep) for a one-character sep
RECURSIVE Split(_, _)
Split(s, sep) ==
    IF \A i \in DOMAIN s : s[i] # sep THEN <<s>>
    ELSE LET i == CHOOSE k \in DOMAIN s :
                      s[k] = sep /\ \A j \in 1..(k - 1) : s[j] # sep
         IN  <<SubSeq(s, 1, i - 1)>> \o Split(SubSeq(s, i + 1, Len(s)), sep)

Whitespace == {" ", "\t"}

\* s.strip()
RECURSIVE Strip(_)
Strip(s) ==
    IF s = <<>> THEN s
    ELSE IF Head(s) \in Whitespace THEN Strip(Tail(s))
    ELSE IF s[Len(s)] \in Whitespace THEN Strip(SubSeq(s, 1, Len(s) - 1))
    ELSE s

DigitValue(c) == (CHOOSE d \in DOMAIN DigitChars : DigitChars[d] = c) - 1
IsDigit(c) == \E d \in DOMAIN DigitChars : DigitChars[d] = c

RECURSIVE DigitsValue(_, _)
DigitsValue(s, acc) ==
    IF s = <<>> THEN acc
    ELSE IF Head(s) = "_" THEN DigitsValue(Tail(s), acc)
    ELSE DigitsValue(Tail(s), acc * 10 + DigitValue(Head(s)))

\* int(s): surrounding whitespace, one optional sign, decimal digits with
\* single underscores between them; anything else raises ValueError.
ParseInt(s) ==
    LET t == Strip(s)
        signed == t # <<>> /\ Head(t) \in {"+", "-"}
        body == IF signed THEN Tail(t) ELSE t
        wellFormed ==
            /\ body # <<>>
            /\ \A i \in DOMAIN body : IsDigit(body[i]) \/ body[i] = "_"
            /\ IsDigit(body[1]) /\ IsDigit(body[Len(body)])
            /\ \A i \in 1..(Len(body) - 1) : ~(body[i] = "_" /\ body[i + 1] = "_")
    IN  IF ~wellFormed THEN Raise("ValueError")
        ELSE Return(IF signed /\ Head(t) = "-" THEN -DigitsValue(body, 0)
                    ELSE DigitsValue(body, 0))

-----------------------------------------------------------------------------
(* The files on disk.  fs maps a path to the file's size, NoFile when there *)
(* is none; the byte at offset i of a file is determined by i.              *)

NoFile == -1

\* The sizes of the media files of the model.
SmallFile == 1000
BigFile == 20000

FileByte(i) == i % 251
FileBytes(size) == [i \in 1..size |-> FileByte(i - 1)]

\* f.seek(pos); f.read(n): the bytes from pos on, at most n, none past the end.
ReadAt(size, pos, n) ==
    IF pos >= size \/ n <= 0 THEN <<>>
    ELSE [i \in 1..(IF size - pos < n THEN size - pos ELSE n) |-> FileByte(pos + i - 1)]

-----------------------------------------------------------------------------
(* web_interface.py: stream_video and stream_by_id. *)

\* f.read(min(8192, remaining))
ChunkLimit == 8192

NoHeaders ==
    [content_range |-> <<>>, accept_ranges |-> <<>>, content_length |-> <<>>,
     content_type |-> <<>>]

\* raise HTTPException(status_code=status)
HttpError(status) ==
    [status |-> status, headers |-> NoHeaders, streaming |-> FALSE,
     start |-> 0, chunk_size |-> 0]

BytesEq == <<"b", "y", "t", "e", "s", "=">>
BytesSp == <<"b", "y", "t", "e", "s", " ">>
BytesUnit == <<"b", "y", "t", "e", "s">>
VideoMp4 == <<"v", "i", "d", "e", "o", "/", "m", "p", "4">>

\* The range taken as half-open.
MutChunkSizeExclusive(start, end) == end - start

\* chunk_size = end - start + 1
ChunkSize(start, end) == end - start + 1

\* Request.headers.get("range") is None when the header is absent.
NoRange == None

\* video_path.exists() / video_path.stat().st_size
FileSize(disk, file_path) ==
    IF file_path \in DOMAIN disk THEN disk[file_path] ELSE NoFile

\* except Exception as e: raise HTTPException(status_code=500, detail=str(e))
\* HTTPException is an Exception: one raised inside the try is caught too.
ExceptException(raised) == HttpError(500)

\* The try block of stream_video up to its return: the status and headers of
\* the response, and for a StreamingResponse the arguments iterfile closes
\* over.
stream_video(disk, file_path, range_header) ==
    IF FileSize(disk, file_path) = NoFile THEN ExceptException(HttpError(404))
    ELSE
    LET file_size == FileSize(disk, file_path)
        range_match == Split(RemoveAll(range_header, BytesEq), "-")
        start == ParseInt(range_match[1])
        end == IF Truthy(range_match[2]) THEN ParseInt(range_match[2])
               ELSE Return(file_size - 1)
    IN  IF Truthy(range_header)
        THEN IF start.kind = "raise" THEN ExceptException(start)
             ELSE IF Len(range_match) < 2 THEN ExceptException(Raise("IndexError"))
             ELSE IF end.kind = "raise" THEN ExceptException(end)
             ELSE [status |-> 206,
                   headers |->
                       [content_range |->
                            BytesSp \o Str(start.value) \o <<"-">>
                                \o Str(end.value) \o <<"/">> \o Str(file_size),
                        accept_ranges |-> BytesUnit,
                        content_length |->
                            Str(ChunkSize(start.value, end.value)),
                        content_type |-> VideoMp4],
                   streaming |-> TRUE,
                   start |-> start.value,
                   chunk_size |-> ChunkSize(start.value, end.value)]
        ELSE [status |-> 200,
              headers |-> [NoHeaders EXCEPT !.accept_ranges = BytesUnit,
                                            !.content_length = Str(file_size),
                                            !.content_type = VideoMp4],
              streaming |-> FALSE, start |-> 0, chunk_size |-> file_size]

\* SELECT file_path FROM videos WHERE id = ?
SelectFilePath(cat, video_id) ==
    IF \E r \in cat.videos : r.id = video_id
    THEN <<(CHOOSE r \in cat.videos : r.id = video_id).file_path>>
    ELSE <<>>

\* stream_by_id: its HTTPException(404)s are raised inside its try; what
\* stream_video returns is returned, what it raises is caught the same way.
stream_by_id(cat, disk, video_id, range_header) ==
    LET result == SelectFilePath(cat, video_id)
        streamed == stream_video(disk, result[1], range_header)
    IN  IF result = <<>> \/ ~Truthy(result[1])
        THEN ExceptException(HttpError(404))
        ELSE IF FileSize(disk, result[1]) = NoFile
        THEN ExceptException(HttpError(404))
        ELSE IF streamed.status >= 400 THEN ExceptException(streamed)
        ELSE streamed

-----------------------------------------------------------------------------
(* The streaming endpoints serving one request at a time (specification    *)
(* SpecStream): the catalog holds the rows of two ingested videos.         *)

StreamCatalog ==
    download_video(download_video(setup_database, WatchUrl("A"), <<>>,
                                  NoFault).cat,
                   WatchUrl("B"), <<>>, NoFault).cat

PathOf(video_id) == SelectFilePath(StreamCatalog, video_id)[1]
\* A file on disk that no row of the catalog names.
OtherPath == <<".", "youtube_library.db">>

StreamPaths == {PathOf(1), PathOf(2), OtherPath}
StreamIds == {1, 2, 3}

RangeOffsets == {0, 100, 199, 999, 8291, 8292}

RangeHeader(s, e) == BytesEq \o Str(s) \o <<"-">> \o Str(e)
OpenRange(s) == BytesEq \o Str(s) \o <<"-">>

MalformedRanges ==
    {BytesEq \o <<"a", "b", "c", "-", "d", "e", "f">>,
     BytesEq \o <<"-", "5", "0", "0">>,
     BytesEq \o <<"1", "0", "0">>}

RangeHeaders ==
    {NoRange} \cup MalformedRanges
        \cup {OpenRange(s) : s \in RangeOffsets}
        \cup {RangeHeader(s, e) : s \in RangeOffsets, e \in RangeOffsets}

NoRequest == [endpoint |-> "none"]
NoResponse == [status |-> 0]
IdleReader == [active |-> FALSE, size |-> 0, pos |-> 0, remaining |-> 0]

\* The response as the client receives it: status and headers now; the body
\* of a FileResponse is the whole file, that of a StreamingResponse is what
\* iterfile yields, chunk by chunk.
Respond(r, size) ==
    /\ resp' = [status |-> r.status, headers |-> r.headers,
                body |-> IF r.status = 200 /\ size > 0
                         THEN <<FileBytes(size)>> ELSE <<>>]
    /\ reader' = IF r.streaming
                  THEN [active |-> TRUE, size |-> size, pos |-> r.start,
                        remaining |-> r.chunk_size]
                  ELSE IdleReader

\* GET /api/stream/{file_path:path}
GetStream(file_path, range_header) ==
    /\ req = NoRequest
    /\ req' = [endpoint |-> "stream", file_path |-> file_path,
               range |-> range_header]
    /\ Respond(stream_video(fs, file_path, range_header),
               FileSize(fs, file_path))
    /\ UNCHANGED <<db, last, fs, webVars>>

\* GET /api/stream-by-id/{video_id}
GetStreamById(video_id, range_header) ==
    /\ req = NoRequest
    /\ req' = [endpoint |-> "stream-by-id", video_id |-> video_id,
               range |-> range_header]
    /\ Respond(stream_by_id(db, fs, video_id, range_header),
               IF SelectFilePath(db, video_id) = <<>> THEN NoFile
               ELSE FileSize(fs, SelectFilePath(db, video_id)[1]))
    /\ UNCHANGED <<db, last, fs, webVars>>

\* One resumption of the generator iterfile: the loop test, and either one
\* f.read and yield or the end of the generator.
IterFile ==
    /\ reader.active
    /\ LET chunk == ReadAt(reader.size, reader.pos,
                           IF ChunkLimit < reader.remaining THEN ChunkLimit
                           ELSE reader.remaining)
       IN  IF reader.remaining > 0 /\ chunk # <<>>
           THEN /\ reader' = [reader EXCEPT !.pos = @ + Len(chunk),
                                            !.remaining = @ - Len(chunk)]
                /\ resp' = [resp EXCEPT !.body = Append(@, chunk)]
           ELSE /\ reader' = IdleReader
                /\ UNCHANGED resp
    /\ UNCHANGED <<db, last, fs, req, webVars>>

\* The response is complete; the server takes the next request.
NextRequest ==
    /\ req # NoRequest
    /\ ~reader.active
    /\ req' = NoRequest
    /\ resp' = NoResponse
    /\ UNCHANGED <<db, last, fs, reader, webVars>>

InitStream ==
    /\ db = StreamCatalog
    /\ last = NoCall
    /\ fs \in {[p \in StreamPaths |->
                   IF p = PathOf(1) THEN a ELSE IF p = PathOf(2) THEN b
                   ELSE SmallFile] :
               a \in {SmallFile, BigFile}, b \in {NoFile, SmallFile}}
    /\ req = NoRequest
    /\ resp = NoResponse
    /\ reader = IdleReader
    /\ loop = 0
    /\ reqs = <<>>
    /\ execs = {}

NextStream ==
    \/ \E p \in StreamPaths, h \in RangeHeaders : GetStream(p, h)
    \/ \E id \in StreamIds, h \in RangeHeaders : GetStreamById(id, h)
    \/ IterFile
    \/ NextRequest

SpecStream == InitStream /\ [][NextStream]_vars

-----------------------------------------------------------------------------
(* The download endpoints under concurrent requests (specification         *)
(* SpecWeb).  Both handlers are `async def`: each runs on the event-loop   *)
(* thread and calls the manager inline, so the loop serves nothing else    *)
(* until the call is over.  The task handed to background_tasks.add_task   *)
(* is a plain function: once the response is out it runs on a thread of    *)
(* the pool, beside whatever the loop does next.  A run is one execution   *)
(* of manager.download_video or manager.download_playlist; while its pc is *)
(* "download" one download_video execution, that of run.url, is in flight. *)

\* The POST requests the server receives in a behaviour.
MaxRequests == 2

\* What the clients post: two videos, and a playlist that holds both.
WebTags == {<<>>}
WebUrls == {WatchUrl("A"), WatchUrl("B")}
WebPlaylistUrls == {"https://www.youtube.com/playlist?list=PL2"}
WebOracles == {NoFault, Oracle("probe", 0)}

NewRun(r, thread) ==
    [req |-> r, thread |-> thread, op |-> reqs[r].op,
     pc |-> IF reqs[r].op = "download_video" THEN "download" ELSE "listing",
     url |-> reqs[r].url, idx |-> 0, results |-> <<>>, db_playlist_id |-> 0]

\* The response of the handler for what the manager call came to.
HandlerResponse(op, out) ==
    IF out.kind = "raise" THEN [code |-> 500, status |-> "", message |-> <<>>]
    ELSE IF op = "download_playlist"
    THEN [code |-> 200, status |-> "success",
          message |-> <<"Playlist download started: ",
                        Get(out.value, "playlist_name", NoneStr)>>]
    ELSE IF out.value.status = "success"
    THEN [code |-> 200, status |-> "success",
          message |-> <<"Successfully downloaded: ", out.value.title>>]
    ELSE [code |-> 200, status |-> "error",
          message |-> <<Get(out.value, "message", "Download failed")>>]

\* POST /api/download-video or /api/download-playlist arrives while the loop
\* is free: the handler adds the background task and calls the manager.
Post(op, url, tags) ==
    /\ Len(reqs) < MaxRequests
    /\ loop = 0
    /\ reqs' = Append(reqs, [op |-> op, url |-> url, tags |-> tags,
                             phase |-> "inline",
                             result |-> [kind |-> "none"],
                             response |-> [code |-> 0]])
    /\ loop' = Len(reqs) + 1
    /\ execs' = execs \cup
           {[req |-> Len(reqs) + 1, thread |-> "loop", op |-> op,
             pc |-> IF op = "download_video" THEN "download" ELSE "listing",
             url |-> url, idx |-> 0, results |-> <<>>, db_playlist_id |-> 0]}
    /\ UNCHANGED <<db, last, streamVars>>

\* The manager call of run is over with outcome out: on the loop thread the
\* handler holds it as its result and answers (a response carries the
\* background task, an exception does not); on a pool thread the task is
\* done and its outcome is dropped.
EndRun(run, out) ==
    /\ execs' = execs \ {run}
    /\ IF run.thread = "loop"
       THEN /\ loop' = 0
            /\ reqs' = [reqs EXCEPT
                   ![run.req].result = out,
                   ![run.req].response = HandlerResponse(run.op, out),
                   ![run.req].phase =
                       IF out.kind = "raise" THEN "done" ELSE "responded"]
       ELSE /\ loop' = loop
            /\ reqs' = [reqs EXCEPT ![run.req].phase = "done"]

\* The response is out: the background task starts on a pool thread.
StartBackground(r) ==
    /\ reqs[r].phase = "responded"
    /\ reqs' = [reqs EXCEPT ![r].phase = "background"]
    /\ execs' = execs \cup {NewRun(r, "pool")}
    /\ UNCHANGED <<db, last, streamVars, loop>>

\* download_playlist up to its loop: the flat listing and the playlists row.
ListPlaylist(run, listing) ==
    /\ run \in execs
    /\ run.pc = "listing"
    /\ LET playlist_info == ExtractPlaylist(run.url)
           cat1 == InsertOrIgnorePlaylist(
                       db, playlist_info.id, playlist_info.title,
                       playlist_info.description)
       IN  IF listing = "error"
           THEN /\ EndRun(run, Return([status |-> "error",
                                       message |-> ListingMsg]))
                /\ UNCHANGED db
           ELSE /\ db' = cat1
                /\ execs' = (execs \ {run}) \cup
                       {[run EXCEPT
                            !.pc = "download", !.idx = 1,
                            !.db_playlist_id =
                                SelectPlaylistId(cat1, playlist_info.id)]}
                /\ UNCHANGED <<loop, reqs>>
    /\ UNCHANGED <<last, streamVars>>

\* The download_video execution in flight in run comes to its end.
FinishDownload(run, oracle) ==
    /\ run \in execs
    /\ run.pc = "download"
    /\ IF run.op = "download_video"
       THEN LET r == download_video(db, run.url, reqs[run.req].tags, oracle)
            IN  /\ db' = r.cat
                /\ EndRun(run, r.out)
       ELSE LET playlist_info == ExtractPlaylist(run.url)
                entries == playlist_info.entries
                r == PlaylistEntry(db, run.db_playlist_id, entries[run.idx],
                                   reqs[run.req].tags, oracle, run.idx - 1,
                                   run.results)
            IN  /\ db' = r.cat
                /\ IF r.out.kind = "raise" THEN EndRun(run, r.out)
                   ELSE IF run.idx = Len(entries)
                   THEN EndRun(run, Return(PlaylistReport(
                            playlist_info.title, entries,
                            Append(run.results, r.out.value))))
                   ELSE /\ execs' = (execs \ {run}) \cup
                               {[run EXCEPT
                                    !.idx = @ + 1,
                                    !.results = Append(@, r.out.value)]}
                        /\ UNCHANGED <<loop, reqs>>
    /\ UNCHANGED <<last, streamVars>>

InitWeb ==
    /\ db = setup_database
    /\ last = NoCall
    /\ fs = <<>>
    /\ req = NoRequest
    /\ resp = NoResponse
    /\ reader = IdleReader
    /\ loop = 0
    /\ reqs = <<>>
    /\ execs = {}

NextWeb ==
    \/ \E url \in WebUrls, tags \in WebTags : Post("download_video", url, tags)
    \/ \E url \in WebPlaylistUrls, tags \in WebTags :
           Post("download_playlist", url, tags)
    \/ \E r \in DOMAIN reqs : StartBackground(r)
    \/ \E run \in execs, listing \in {"ok", "error"} : ListPlaylist(run, listing)
    \/ \E run \in execs, oracle \in WebOracles : FinishDownload(run, oracle)

SpecWeb == InitWeb /\ [][NextWeb]_vars

-----------------------------------------------------------------------------
(* download_playlist called again and again, also for a playlist that was  *)
(* renamed in between (specification SpecPlaylists).                       *)

RelistUrls == PlaylistUrls \cup {RenamedPlaylistUrl}

NextPlaylists ==
    \/ \E url \in RelistUrls :
           \E oracle \in PlaylistOracles(url) :
               DownloadPlaylist(url, <<>>, oracle)
    \/ NextCall

SpecPlaylists == Init /\ [][NextPlaylists]_vars

-----------------------------------------------------------------------------
(* The pure helpers called on their own (specification SpecHelpers): the   *)
(* classifier and the destination directory on the info dicts yt_dlp can   *)
(* answer, sanitize_filename on names shorter and longer than NameLimit.   *)

\* A key the info dict does not hold.
Absent == -2
AbsentText == <<"<absent>">>

EmptyDict == [k \in {} |-> 0]
IntField(key, v) == IF v = Absent THEN EmptyDict ELSE key :> v
TextField(key, v) == IF v = AbsentText THEN EmptyDict ELSE key :> v

\* The info dict of a probe: yt_dlp names the page's address webpage_url.
ProbeInfo(duration, width, height, url, uploader) ==
    IntField("duration", duration) @@ IntField("width", width)
        @@ IntField("height", height) @@ TextField("uploader", uploader)
        @@ [id |-> url[3], title |-> <<"t">>, webpage_url |-> url, ext |-> "mp4"]

ProbeDurations == {Absent, NoneInt, 0, 45, 60, 61, 120}
ProbeSizes == {Absent, NoneInt, 0, 720, 1280}
ProbeUploaders ==
    {<<"X", "/", "y">>, <<"/", "?">>, <<".">>, <<".", ".">>,
     <<":", ".", "/", ".">>, None, AbsentText}

ClassifierInfos ==
    {ProbeInfo(d, w, h, url, <<"Z">>) :
        d \in ProbeDurations, w \in ProbeSizes, h \in ProbeSizes,
        url \in {WatchUrl("A"), ShortsUrl("A")}}

\* video_type = "shorts" if is_short else "videos"
VideoType(is_short) == IF IsTrue(is_short) THEN "shorts" ELSE "videos"

\* download_video from the probe's answer to the bucket.
Classify(info) ==
    /\ last = NoCall
    /\ last' = [op |-> "is_youtube_short", info |-> info,
                out |-> Return(is_youtube_short(info)),
                video_type |-> VideoType(is_youtube_short(info))]
    /\ UNCHANGED <<db, streamVars, webVars>>

\* The name of length n that repeats the characters of unit.
Fill(unit, n) == [i \in 1..n |-> unit[((i - 1) % Len(unit)) + 1]]

NameUnits ==
    {<<"a">>, <<"a", "/">>, <<":", "b">>, <<"?">>,
     <<"a", "b", "c", "d", "e", "f", "g", "h", "i", "*">>,
     <<"\\", "a", "b", "c", "d", "e", "f", "g", "h", "|", "i", "j">>}
NameLengths == {0, 1, 2, 9, 199, 200, 201, 222, 223, 240}

FileNames == {Fill(u, n) : u \in NameUnits, n \in NameLengths}

SanitizeFilename(filename) ==
    /\ last = NoCall
    /\ last' = [op |-> "sanitize_filename", filename |-> filename,
                out |-> Return(sanitize_filename(filename))]
    /\ UNCHANGED <<db, streamVars, webVars>>

\* pathlib's `/`: an empty segment and "." add nothing to the path; ".."
\* is kept as a segment and names the parent when the path is used.
PathJoin(parts, segment) ==
    IF segment = <<>> \/ segment = <<".">> THEN parts
    ELSE Append(parts, segment)

\* output_dir = self.base_path / video_type / uploader, the path below
\* base_path / video_type as its segments; re.sub raises TypeError on None.
output_dir(info) ==
    LET raw_uploader == Get(info, "uploader", <<"U", "n", "k", "n", "o", "w", "n">>)
        video_type == VideoType(is_youtube_short(info))
    IN  IF raw_uploader = None THEN Raise("TypeError")
        ELSE Return([base |-> "./youtube_media", video_type |-> video_type,
                     below |-> PathJoin(<<>>, sanitize_filename(raw_uploader))])

DirectoryInfos ==
    {ProbeInfo(d, 720, 1280, WatchUrl("A"), u) :
        d \in {45, 120}, u \in ProbeUploaders}

OutputDir(info) ==
    /\ last = NoCall
    /\ last' = [op |-> "output_dir", info |-> info, out |-> output_dir(info)]
    /\ UNCHANGED <<db, streamVars, webVars>>

NextHelpers ==
    \/ \E info \in ClassifierInfos : Classify(info)
    \/ \E filename \in FileNames : SanitizeFilename(filename)
    \/ \E info \in DirectoryInfos : OutputDir(info)
    \/ NextCall

SpecHelpers == Init /\ [][NextHelpers]_vars

-----------------------------------------------------------------------------
(* get_stats, and the library browsed between ingestions (specification    *)
(* SpecLibrary): videos, a short and a live stream are ingested, listed    *)
(* and counted.                                                            *)

\* SELECT COUNT(*) FROM videos WHERE is_short = ?: a NULL is_short equals
\* neither 0 nor 1.
CountKind(cat, kind) ==
    Cardinality({r \in cat.videos : r.is_short # NoneInt /\ r.is_short = kind})

\* SELECT SUM(duration) FROM videos, NULL durations left out; `or 0`.
RECURSIVE SumDuration(_)
SumDuration(rows) ==
    IF rows = {} THEN 0
    ELSE LET r == CHOOSE x \in rows : TRUE
         IN  (IF r.duration = NoneInt THEN 0 ELSE r.duration)
                 + SumDuration(rows \ {r})

\* GET /api/stats
get_stats(cat) ==
    [total_videos |-> CountKind(cat, 0),
     total_shorts |-> CountKind(cat, 1),
     total_playlists |-> Len(cat.playlists),
     total_duration_seconds |-> SumDuration(cat.videos)]

GetStats ==
    /\ last = NoCall
    /\ last' = [op |-> "get_stats", out |-> Return(get_stats(db))]
    /\ UNCHANGED <<db, streamVars, webVars>>

LibraryUrls == {WatchUrl("A"), WatchUrl("B"), LiveUrl}
LibraryOracles == {NoFault, Oracle("probe", 0)}

NextLibrary ==
    \/ \E url \in LibraryUrls, tags \in TagLists, oracle \in LibraryOracles :
           DownloadVideo(url, tags, oracle)
    \/ \E is_short \in ListFilters : GetAllVideos(is_short)
    \/ GetStats
    \/ NextCall

SpecLibrary == Init /\ [][NextLibrary]_vars

-----------------------------------------------------------------------------
(* Properties of the manager (specification Spec). *)

IsCall(call, op) == call.op = op
Returned(call) == call.out.kind = "return"
Succeeded(call) ==
    /\ call.op = "download_video"
    /\ Returned(call)
    /\ call.out.value.status = "success"
Failed(call) ==
    /\ call.op = "download_video"
    /\ Returned(call)
    /\ call.out.value.status = "error"

\* A download_playlist call that returned its report.
Completed(call) ==
    /\ call.op = "download_playlist"
    /\ Returned(call)
    /\ call.out.value.status = "success"
EntriesOf(call) == ExtractPlaylist(call.url).entries
ResultsOf(call) == call.out.value.results
\* The entries of the call, by index from 1, that succeeded / that ingested v.
SuccessIdx(call) ==
    {i \in DOMAIN ResultsOf(call) : ResultsOf(call)[i].status = "success"}
SuccessesOf(call, v) ==
    {i \in SuccessIdx(call) : ResultsOf(call)[i].video_id = v}
LastOf(S) == CHOOSE m \in S : \A k \in S : k <= m

\* The field values an ingestion of url is to leave in its row.
HasValuesOf(r, url) ==
    /\ r.video_id = ExtractInfo(url).id
    /\ r.title = ExtractInfo(url).title
    /\ r.uploader = ExtractInfo(url).uploader
    /\ r.duration = ExtractInfo(url).duration
    /\ r.original_url = url
    /\ r.status = "completed"

RowsOf(cat, video_id) == {r \in cat.videos : r.video_id = video_id}

\* C1: the videos table never holds two rows with the same external video
\* id; a successful download_video leaves exactly one row for its id, with
\* the row id it returned and the field values of this ingestion, and leaves
\* the rows of every other id as they were; a download_playlist leaves, for
\* each id it ingested, exactly one row with the values of the last entry
\* that ingested it.
C1_OneRowPerExternalId ==
    /\ [](\A r1, r2 \in db.videos : r1.video_id = r2.video_id => r1 = r2)
    /\ [][Succeeded(last') =>
            /\ Cardinality(RowsOf(db', ExtractInfo(last'.url).id)) = 1
            /\ \A r \in RowsOf(db', ExtractInfo(last'.url).id) :
                   /\ r.id = last'.out.value.db_id
                   /\ HasValuesOf(r, last'.url)
            /\ \A v \in VideoIds \ {ExtractInfo(last'.url).id} :
                   RowsOf(db', v) = RowsOf(db, v)]_vars
    /\ [][Completed(last') =>
            \A v \in VideoIds :
                IF SuccessesOf(last', v) = {} THEN RowsOf(db', v) = RowsOf(db, v)
                ELSE /\ Cardinality(RowsOf(db', v)) = 1
                     /\ \A r \in RowsOf(db', v) :
                            /\ r.id = ResultsOf(last')[LastOf(SuccessesOf(last', v))].db_id
                            /\ HasValuesOf(r, EntryUrl(EntriesOf(last')[
                                                  LastOf(SuccessesOf(last', v))]))]_vars

\* C1 witness: the id A was ingested twice (row ids 1 and 2) and one row is
\* left, that of the second ingestion by the shorts URL.
C1_Witness ==
    /\ Succeeded(last)
    /\ last.url = ShortsUrl("A")
    /\ last.out.value.db_id = 2
    /\ Cardinality(db.videos) = 1
    /\ \E i \in DOMAIN db.tags : db.tags[i] = [video_id |-> 1, tag |-> "Podcast"]

\* C8: download_video returns an error result exactly when the extractor
\* fails (at the metadata probe or at the download), the result carries the
\* extractor's message, and the videos and tags tables are as before the call.
C8_ErrorResultLeavesTables ==
    [][IsCall(last', "download_video") =>
         /\ Failed(last') <=> last'.oracle.fault \in {"probe", "download"}
         /\ Failed(last') =>
              /\ last'.out.value.message =
                     (IF last'.oracle.fault = "probe" THEN ProbeMsg
                      ELSE DownloadMsg)
              /\ db'.videos = db.videos
              /\ db'.tags = db.tags]_vars

\* C8 witness: a download that failed at the download stage over a catalog
\* that already holds a row.
C8_Witness ==
    /\ Failed(last)
    /\ last.oracle.fault = "download"
    /\ db.videos # {}
    /\ db.tags # <<>>

HasTag(cat, video_db_id, tag) ==
    \E i \in DOMAIN cat.tags :
        cat.tags[i] = [video_id |-> video_db_id, tag |-> tag]

\* The row ids the call handed back for the rows it wrote.
WrittenBy(call) ==
    IF Succeeded(call) THEN {call.out.value.db_id}
    ELSE IF call.op = "download_playlist" /\ Returned(call)
              /\ call.out.value.status = "success"
    THEN {call.out.value.results[i].db_id :
             i \in {j \in DOMAIN call.out.value.results :
                       call.out.value.results[j].status = "success"}}
    ELSE {}

\* C10: in every committed catalog state each video row has a 'YouTube' tag
\* row for its row id, and the rows written by the call just made have a tag
\* row for every tag the caller supplied.
C10_VideoCommitsWithTags ==
    /\ \A r \in db.videos : HasTag(db, r.id, "YouTube")
    /\ last # NoCall /\ last.op # "search_videos" =>
         \A r \in db.videos : r.id \in WrittenBy(last) =>
             \A t \in Range(last.tags) : HasTag(db, r.id, t)

\* C10 witness: an ingestion with a caller tag failed at its first tag
\* insert, after its video upsert, over a catalog that holds a row.
C10_Witness ==
    /\ IsCall(last, "download_video")
    /\ last.oracle = Oracle("db", 2)
    /\ last.tags = <<"Podcast">>
    /\ last.out.kind = "raise"
    /\ db.videos # {}

\* The Oracle faults that are extractor failures.
ExtractionFaults == {"probe", "download"}

\* The playlist_items rows the step added.
AddedItems(cat, cat2) ==
    SubSeq(cat2.playlist_items, Len(cat.playlist_items) + 1,
           Len(cat2.playlist_items))

\* C4: a download_playlist whose listing succeeds and whose entries each
\* succeed or fail in the extractor returns status 'success' with one
\* itemized result per entry, in listing order (the i-th result is the i-th
\* entry's: a success for its video id, or the extractor's error), and adds
\* exactly one playlist_items row per successful entry, in listing order,
\* with the playlist's row id, the entry's video row id and the entry's
\* 0-based index as position.
C4_PlaylistItemizesEveryEntry ==
    [][(/\ IsCall(last', "download_playlist")
        /\ last'.oracle.listing = "ok"
        /\ \A i \in DOMAIN last'.oracle.entries :
               last'.oracle.entries[i].fault \in ExtractionFaults \cup {"none"})
       =>
       /\ Completed(last')
       /\ last'.out.value.total_videos = Len(EntriesOf(last'))
       /\ Len(ResultsOf(last')) = Len(EntriesOf(last'))
       /\ \A i \in DOMAIN ResultsOf(last') :
              IF last'.oracle.entries[i].fault = "none"
              THEN /\ ResultsOf(last')[i].status = "success"
                   /\ ResultsOf(last')[i].video_id = EntriesOf(last')[i].id
                   /\ ResultsOf(last')[i].db_id = db.videos_seq +
                          Cardinality({j \in SuccessIdx(last') : j <= i})
              ELSE /\ ResultsOf(last')[i].status = "error"
                   /\ ResultsOf(last')[i].message =
                          (IF last'.oracle.entries[i].fault = "probe"
                           THEN ProbeMsg ELSE DownloadMsg)
       /\ SubSeq(db'.playlist_items, 1, Len(db.playlist_items))
              = db.playlist_items
       /\ Len(AddedItems(db, db')) = Cardinality(SuccessIdx(last'))
       /\ \A k \in DOMAIN AddedItems(db, db') :
              LET item == AddedItems(db, db')[k]
              IN  /\ item.position + 1 \in SuccessIdx(last')
                  /\ Cardinality({j \in SuccessIdx(last') :
                                     j <= item.position + 1}) = k
                  /\ item.videos_id = ResultsOf(last')[item.position + 1].db_id
                  /\ \E p \in DOMAIN db'.playlists :
                         /\ db'.playlists[p].playlist_id =
                                ExtractPlaylist(last'.url).id
                         /\ db'.playlists[p].id = item.playlist_id]_vars

\* C4 witness: the three-entry playlist with its second entry failing in the
\* extractor, linked at positions 0 and 2.
C4_Witness ==
    /\ Completed(last)
    /\ Len(ResultsOf(last)) = 3
    /\ last.oracle.entries[2].fault = "probe"
    /\ SuccessIdx(last) = {1, 3}
    /\ Len(db.playlist_items) = 2
    /\ db.playlist_items[1].position = 0
    /\ db.playlist_items[2].position = 2

\* C9 (the claim as stated): when output_dir.mkdir fails for an entry of a
\* playlist, download_playlist still returns its report, with one result per
\* entry and that entry's result an error.
C9_FilesystemFailureStaysInItem ==
    (/\ IsCall(last, "download_playlist")
     /\ last.oracle.listing = "ok"
     /\ \E i \in DOMAIN last.oracle.entries :
            last.oracle.entries[i].fault = "mkdir")
    =>
    /\ Completed(last)
    /\ Len(ResultsOf(last)) = Len(EntriesOf(last))
    /\ \A i \in DOMAIN last.oracle.entries :
           last.oracle.entries[i].fault = "mkdir" =>
               ResultsOf(last)[i].status = "error"

\* C3 (the claim as stated): search_videos(q) returns, and what it returns
\* is the set of completed rows whose title or uploader contains q; GET
\* /api/search answers 200 with the same rows.
C3_SearchReturnsMatches ==
    IsCall(last, "search_videos") =>
        /\ Returned(last)
        /\ last.out.value =
               {r \in db.videos :
                   /\ r.status = "completed"
                   /\ Contains(r.title, last.q) \/ Contains(r.uploader, last.q)}
        /\ last.http.status = 200
        /\ last.http.body = last.out.value

\* C11: get_all_videos(is_short=b) returns exactly the completed rows whose
\* is_short is b, get_all_videos() exactly the completed rows, and no row
\* returned has another status than 'completed'.
C11_ListReturnsCompletedOfKind ==
    IsCall(last, "get_all_videos") =>
        /\ Returned(last)
        /\ \A r \in last.out.value : r.status = "completed"
        /\ last.is_short = PyNone =>
               last.out.value = {r \in db.videos : r.status = "completed"}
        /\ \A b \in BOOLEAN :
               last.is_short = PyBool(b) =>
                   last.out.value =
                       {r \in db.videos :
                           /\ r.status = "completed"
                           /\ r.is_short = (IF b THEN 1 ELSE 0)}

\* The shorts are listed from a catalog that holds a short and a video.
C11_Witness ==
    /\ IsCall(last, "get_all_videos")
    /\ last.is_short = PyBool(TRUE)
    /\ Cardinality(db.videos) = 2
    /\ Cardinality(last.out.value) = 1
    /\ \E r \in db.videos : r.is_short = 0

-----------------------------------------------------------------------------
(* Properties of the playlists table (specification SpecPlaylists). *)

PlaylistRowsOf(cat, playlist_id) ==
    {i \in DOMAIN cat.playlists : cat.playlists[i].playlist_id = playlist_id}

\* C12: the playlists table never holds two rows with the same external
\* playlist id; no call changes a row that is there (its row id, name and
\* description stay those of the call that introduced the id); and a call
\* whose listing succeeds adds a row, with the listing's title and
\* description, exactly when the id was absent.
C12_PlaylistRowOncePerId ==
    /\ [](\A i, j \in DOMAIN db.playlists :
              db.playlists[i].playlist_id = db.playlists[j].playlist_id => i = j)
    /\ [][/\ Len(db.playlists') >= Len(db.playlists)
          /\ \A i \in DOMAIN db.playlists : db.playlists'[i] = db.playlists[i]
          /\ (IsCall(last', "download_playlist") /\ last'.oracle.listing = "ok")
                 => LET info == ExtractPlaylist(last'.url)
                    IN  IF PlaylistRowsOf(db, info.id) # {}
                        THEN db.playlists' = db.playlists
                        ELSE db.playlists' =
                                 Append(db.playlists,
                                        [id |-> Len(db.playlists) + 1,
                                         playlist_id |-> info.id,
                                         name |-> info.title,
                                         description |-> info.description])
         ]_vars

\* The renamed playlist is ingested after the playlist was introduced under
\* its first title, which the row still carries.
C12_Witness ==
    /\ IsCall(last, "download_playlist")
    /\ last.url = RenamedPlaylistUrl
    /\ Completed(last)
    /\ \E i \in DOMAIN db.playlists :
           /\ db.playlists[i].playlist_id = "PL2"
           /\ db.playlists[i].name = "Pair"
           /\ db.playlists[i].description = ""

-----------------------------------------------------------------------------
(* Properties of the pure helpers (specification SpecHelpers). *)

\* The duration the classifier is to go by: a missing one counts as 0.
DurationOf(info) == Get(info, "duration", 0)
\* A dimension that is known and not zero.
Known(info, key) ==
    /\ key \in DOMAIN info
    /\ info[key] # NoneInt
    /\ info[key] # 0
MarkedShort(info) == HasShortsMarker(Get(info, "webpage_url", <<>>))

\* C13 (the claim as stated): without the '/shorts/' marker in the source
\* URL, the classifier's answer is true exactly when duration <= 60 (a
\* missing duration counting as 0) and width and height are known, nonzero
\* and height > width.
C13_ClassifierByDurationAndShape ==
    (/\ IsCall(last, "is_youtube_short")
     /\ ~MarkedShort(last.info)
     /\ DurationOf(last.info) # NoneInt)
    =>
    (IsTrue(last.out.value) <=>
        /\ DurationOf(last.info) <= 60
        /\ Known(last.info, "width")
        /\ Known(last.info, "height")
        /\ last.info.height > last.info.width)

\* C14 (the claim as stated): with the '/shorts/' marker in the source URL
\* the classifier answers true whatever the duration and the dimensions, and
\* download_video puts the video in the shorts bucket.
C14_MarkerMeansShort ==
    (IsCall(last, "is_youtube_short") /\ MarkedShort(last.info))
    =>
    /\ IsTrue(last.out.value)
    /\ last.video_type = "shorts"

\* Python's s[:200] and re.sub, said with the operators of Sequences.
IsLegal(c) == c \notin IllegalChars

\* C16: sanitize_filename(s) is s without the characters < > : " / \ | ? *
\* cut to its first 200 characters; it is never longer than 200 characters,
\* holds none of those characters, and is a fixed point of sanitize_filename.
C16_SanitizeStripsThenTruncates ==
    IsCall(last, "sanitize_filename") =>
        LET kept == SelectSeq(last.filename, IsLegal)
            out == last.out.value
        IN  /\ Returned(last)
            /\ out = [i \in 1..(IF Len(kept) <= 200 THEN Len(kept) ELSE 200)
                          |-> kept[i]]
            /\ Len(out) <= 200
            /\ \A i \in DOMAIN out : out[i] \notin IllegalChars
            /\ sanitize_filename(out) = out

\* A name with illegal characters that is longer than 200 characters also
\* without them.
C16_Witness ==
    /\ IsCall(last, "sanitize_filename")
    /\ Len(last.filename) > 200
    /\ \E i \in 1..200 : last.filename[i] \in IllegalChars
    /\ Len(SelectSeq(last.filename, IsLegal)) > 200
    /\ Len(last.out.value) = 200
    /\ last.out.value # SubSeq(last.filename, 1, 200)

\* C17 (the claim as stated): the destination directory is a direct child of
\* base/<bucket>, named by a non-empty sanitized uploader segment.
C17_DestinationInsideBucket ==
    IsCall(last, "output_dir") =>
        /\ Returned(last)
        /\ last.out.value.base = "./youtube_media"
        /\ last.out.value.video_type \in {"videos", "shorts"}
        /\ Len(last.out.value.below) = 1
        /\ last.out.value.below[1] # <<>>
        /\ last.out.value.below[1] # <<".">>
        /\ last.out.value.below[1] # <<".", ".">>

VideoRowIds(cat) == {r.id : r \in cat.videos}

\* C18 (the claim as stated): every tags row and every playlist_items row
\* references the row id of a video that is in the videos table.
C18_NoDanglingVideoReference ==
    /\ \A i \in DOMAIN db.tags : db.tags[i].video_id \in VideoRowIds(db)
    /\ \A i \in DOMAIN db.playlist_items :
           db.playlist_items[i].videos_id \in VideoRowIds(db)

-----------------------------------------------------------------------------
(* Properties of the library (specification SpecLibrary). *)

\* C21 (the claim as stated): every video row has is_short true or false,
\* each completed row is in exactly one of the two filtered lists, and the
\* stats total_videos + total_shorts is the number of video rows.
C21_EveryVideoHasOneKind ==
    /\ \A r \in db.videos : r.is_short \in {0, 1}
    /\ \A r \in db.videos :
           r.status = "completed" =>
               (r \in get_all_videos(db, PyBool(TRUE)).value)
                   # (r \in get_all_videos(db, PyBool(FALSE)).value)
    /\ get_stats(db).total_videos + get_stats(db).total_shorts
           = Cardinality(db.videos)

-----------------------------------------------------------------------------
(* Properties of the streaming endpoints (specification SpecStream). *)

\* The path of the file the request names, <<>> when its id is unknown.
ServedPath(r) ==
    IF r.endpoint = "stream" THEN <<r.file_path>>
    ELSE IF r.endpoint = "stream-by-id" THEN SelectFilePath(db, r.video_id)
    ELSE <<>>

\* The size of the file the request resolves to, NoFile when there is none.
ServedSize(r) ==
    IF ServedPath(r) = <<>> THEN NoFile ELSE FileSize(fs, ServedPath(r)[1])

RECURSIVE Flatten(_)
Flatten(chunks) ==
    IF chunks = <<>> THEN <<>> ELSE Head(chunks) \o Flatten(Tail(chunks))

IsPrefix(s, t) == Len(s) <= Len(t) /\ s = SubSeq(t, 1, Len(s))

\* The request asks for bytes s..e of the file it names.
AsksFor(r, s, e) ==
    /\ r.endpoint # "none"
    /\ \/ r.range = RangeHeader(s, e)
       \/ r.range = OpenRange(s) /\ e = ServedSize(r) - 1

\* C2 (the claim as stated): stream-by-id answers 404 when the id is not in
\* the catalog, the row has no file path, or the file is not on disk.
C2_StreamByIdNotFound ==
    (/\ req.endpoint = "stream-by-id"
     /\ \/ ServedPath(req) = <<>>
        \/ ~Truthy(ServedPath(req)[1])
        \/ ServedSize(req) = NoFile)
    => resp.status = 404

\* C6: a request for bytes s..e of a file of size N, 0 <= s <= e < N (e = N-1
\* when the header omits it), is answered 206 with Content-Range
\* 'bytes s-e/N', Content-Length e-s+1 and Accept-Ranges 'bytes'; the body
\* comes in chunks of at most 8192 bytes, is at every moment a prefix of
\* bytes s..e of the file and, once iterfile has ended, is exactly those.
C6_RangeServesExactSlice ==
    \A s \in RangeOffsets, e \in RangeOffsets \cup {ServedSize(req) - 1} :
        (AsksFor(req, s, e) /\ 0 <= s /\ s <= e /\ e < ServedSize(req)) =>
            /\ resp.status = 206
            /\ resp.headers.content_range =
                   BytesSp \o Str(s) \o <<"-">> \o Str(e) \o <<"/">>
                       \o Str(ServedSize(req))
            /\ resp.headers.content_length = Str(e - s + 1)
            /\ resp.headers.accept_ranges = BytesUnit
            /\ \A i \in DOMAIN resp.body :
                   Len(resp.body[i]) \in 1..ChunkLimit
            /\ IsPrefix(Flatten(resp.body),
                        SubSeq(FileBytes(ServedSize(req)), s + 1, e + 1))
            /\ ~reader.active => Len(Flatten(resp.body)) = e - s + 1

\* C6 witness: bytes 100-8292 of the 20000-byte file of video 1, streamed to
\* the end in two chunks.
C6_Witness ==
    /\ req = [endpoint |-> "stream-by-id", video_id |-> 1,
              range |-> <<"b", "y", "t", "e", "s", "=", "1", "0", "0", "-",
                          "8", "2", "9", "2">>]
    /\ ServedSize(req) = 20000
    /\ ~reader.active
    /\ resp.status = 206
    /\ resp.headers.content_range =
           <<"b", "y", "t", "e", "s", " ", "1", "0", "0", "-", "8", "2", "9",
             "2", "/", "2", "0", "0", "0", "0">>
    /\ resp.headers.content_length = <<"8", "1", "9", "3">>
    /\ Len(resp.body) = 2
    /\ Len(resp.body[1]) = 8192
    /\ resp.body[2] = <<FileByte(8292)>>

\* C7 (the claim as stated): a request whose Range header is malformed, for
\* a file that exists, is answered with a 4xx status.
C7_MalformedRangeIsClientError ==
    (/\ req.endpoint # "none"
     /\ req.range \in MalformedRanges
     /\ ServedSize(req) # NoFile)
    => resp.status \in 400..499

\* The file paths the rows of the catalog name.
CatalogPaths(cat) == {r.file_path : r \in cat.videos}

\* C19 (the claim as stated): a stream endpoint serves bytes only of a file
\* that is the file_path of a row of the catalog.
C19_ServesCatalogFilesOnly ==
    (req.endpoint # "none" /\ resp.status \in {200, 206})
        => /\ ServedPath(req) # <<>>
           /\ ServedPath(req)[1] \in CatalogPaths(db)

\* C20 (the claim as stated): a 206 response to a Range header that parses
\* to start and end has 0 <= start <= end < file_size, and once its body is
\* complete the declared Content-Length is the number of bytes sent.
C20_PartialContentIsConsistent ==
    resp.status = 206 =>
        /\ \A s \in RangeOffsets, e \in RangeOffsets \cup {ServedSize(req) - 1} :
               AsksFor(req, s, e) => (0 <= s /\ s <= e /\ e < ServedSize(req))
        /\ ~reader.active =>
               resp.headers.content_length = Str(Len(Flatten(resp.body)))

-----------------------------------------------------------------------------
(* Properties of the download endpoints (specification SpecWeb). *)

\* The external video id whose download_video execution is in flight in run.
InFlightId(run) ==
    IF run.op = "download_video" THEN ExtractInfo(run.url).id
    ELSE ExtractInfo(EntryUrl(ExtractPlaylist(run.url).entries[run.idx])).id

\* C5 (the claim as stated): no two download_video executions for the same
\* external video id are in flight at once.
C5_OneIngestionPerIdInFlight ==
    \A r1, r2 \in execs :
        (r1 # r2 /\ r1.pc = "download" /\ r2.pc = "download")
            => InFlightId(r1) # InFlightId(r2)

\* The manager invocations the handler of request r has started so far: the
\* inline call, and the background task once it was taken up.
Invocations(r) ==
    CASE reqs[r].phase \in {"inline", "responded"} -> 1
      [] reqs[r].phase = "background" -> 2
      [] OTHER -> IF reqs[r].response.code = 200 THEN 2 ELSE 1

\* C15 (the claim as stated): an accepted POST runs its ingestion path
\* exactly once, and a single playlist request adds at most one
\* playlist_items row per entry of the listing.
C15_OneRequestOneIngestion ==
    /\ \A r \in DOMAIN reqs : Invocations(r) = 1
    /\ (Len(reqs) = 1 /\ reqs[1].op = "download_playlist") =>
           Len(db.playlist_items) <= Len(ExtractPlaylist(reqs[1].url).entries)

\* C22 (the claim as stated): the status of the POST /api/download-playlist
\* response is 'error', with the failure message, when download_playlist
\* returned an error result for the listing, and 'success' only when the
\* listing succeeded.
C22_PlaylistResponseReflectsListing ==
    \A r \in DOMAIN reqs :
        (reqs[r].op = "download_playlist" /\ reqs[r].result.kind = "return")
        =>
        /\ reqs[r].result.value.status = "error" =>
               /\ reqs[r].response.status = "error"
               /\ reqs[r].response.message = <<reqs[r].result.value.message>>
        /\ reqs[r].response.status = "success" =>
               reqs[r].result.value.status = "success"

====
